---- MODULE Spec2Model ----
(***************************************************************************)
(* tswrap (src/src/tswrap.ts): isError, wrapPromise, wrapAxios,            *)
(* isAxiosError, parseData, isParseError.                                  *)
(*                                                                         *)
(* JavaScript values are records of one shape, so that any two of them can *)
(* be compared:                                                            *)
(*   kind   typeof-like kind: undefined, null, boolean, number, string,    *)
(*          object                                                         *)
(*   cls    the constructor that made an object ("" for a primitive)       *)
(*   lit    the literal of a primitive, or a label of an object            *)
(*   protos the prototype chain of an object, nearest first                *)
(*   tag    the value of the property _tag ("absent" when there is none)   *)
(*   id     the type of the property id ("absent" when there is none)      *)
(*   then   what a callable property then does when it is called with a    *)
(*          resolve and a reject function ("none" when then is absent or   *)
(*          not callable)                                                  *)
(* Values are immutable and the wrapped promise is a native promise, which *)
(* is never fulfilled with a thenable.                                     *)
(***************************************************************************)
EXTENDS Naturals, Sequences, FiniteSets

VARIABLES
    p,            \* the wrapped promise: [state, value]
    called,       \* the entry point that wrapped p: "none", "wrapPromise", "wrapAxios"
    p2,           \* the promise made by promise.then(..)
    p3,           \* the promise made by .catch(..)
    ret,          \* the promise wrapPromise returns: [state, value, resolved]
    jobs,         \* the host's promise job queue
    fulfilCount,  \* how many times ret has become fulfilled
    wraps,        \* how many promises this run has wrapped
    log           \* the last call of isError, isAxiosError, isParseError or parseData

vars == <<p, called, p2, p3, ret, jobs, fulfilCount, wraps, log>>

\* How many promises one run wraps, one after the other.
MaxWraps == 2

------------------------------------------------------------------------------
\* Values

Prim(kind, lit) ==
    [kind |-> kind, cls |-> "", lit |-> lit, protos |-> <<>>,
     tag |-> "absent", id |-> "absent", then |-> "none"]

Obj(cls, lit, protos, tag, id, then) ==
    [kind |-> "object", cls |-> cls, lit |-> lit, protos |-> protos,
     tag |-> tag, id |-> id, then |-> then]

Undefined == Prim("undefined", "undefined")
Null      == Prim("null", "null")
JSTrue    == Prim("boolean", "true")
JSFalse   == Prim("boolean", "false")
JSBool(b) == IF b THEN JSTrue ELSE JSFalse

ObjectProtos == <<"Object.prototype">>
ErrorProtos  == <<"Error.prototype", "Object.prototype">>
SubErrorProtos == <<"TypeError.prototype", "Error.prototype", "Object.prototype">>

Primitives ==
    { Undefined, Null, JSTrue, JSFalse,
      Prim("number", "0"), Prim("number", "NaN"), Prim("number", "123"),
      Prim("string", ""), Prim("string", "boom") }

PlainObjects ==
    { Obj("Object", "{}", ObjectProtos, "absent", "absent", "none"),
      Obj("Object", "{id:'42'}", ObjectProtos, "absent", "string", "none"),
      Obj("Object", "{id:123}", ObjectProtos, "absent", "number", "none"),
      Obj("Object", "{_tag:'Left',id:'42'}", ObjectProtos, "Left", "string", "none"),
      Obj("Object", "{_tag:'Right'}", ObjectProtos, "Right", "absent", "none"),
      Obj("Object", "Object.create(null)", <<>>, "absent", "absent", "none"),
      Obj("AxiosResponse", "{status:200,data}", ObjectProtos, "absent", "absent", "none") }

\* new Error(..), a subclass instance, a NodeJS.ErrnoException, and the error
\* axios makes (an Error enhanced with config, request and response).
PlainErrors ==
    { Obj("Error", "new Error('x')", ErrorProtos, "absent", "absent", "none"),
      Obj("TypeError", "new TypeError('x')", SubErrorProtos, "absent", "absent", "none"),
      Obj("AxiosError", "axios 404", ErrorProtos, "absent", "absent", "none") }

ThenBehaviours == {"resolve", "reject", "never", "throw"}

\* Objects with a callable then: plain objects, and an Error carrying one.
Thenables ==
    { Obj("Object", "{then}", ObjectProtos, "absent", "absent", b) : b \in ThenBehaviours }
    \cup { Obj("Error", "error with then", ErrorProtos, "absent", "absent", "reject") }

Universe == Primitives \cup PlainObjects \cup PlainErrors \cup Thenables

\* What a thenable of the universe passes to the function it calls.
Inner == Prim("string", "inner")

IsObject(x) == x.kind = "object"
IsThenable(x) == IsObject(x) /\ x.then # "none"

\* ToBoolean
Truthy(x) ==
    ~ \/ x.kind \in {"undefined", "null"}
      \/ x.kind = "boolean" /\ x.lit = "false"
      \/ x.kind = "number" /\ x.lit \in {"0", "NaN"}
      \/ x.kind = "string" /\ x.lit = ""

------------------------------------------------------------------------------
\* isError, isAxiosError, isParseError

\* arg instanceof C: false for a primitive, else C.prototype is looked for along
\* the prototype chain of arg.
InstanceOf(arg, proto) ==
    IsObject(arg) /\ \E i \in 1..Len(arg.protos) : arg.protos[i] = proto

InstanceOfDirect(arg, proto) ==
    IsObject(arg) /\ Len(arg.protos) > 0 /\ arg.protos[1] = proto

isErrorDirectOnly(arg) == InstanceOfDirect(arg, "Error.prototype")

isError(arg) == InstanceOf(arg, "Error.prototype")

isAxiosError(arg) == isError(arg)

\* arg._tag: undefined on a primitive that can be boxed
GetTag(arg) == IF IsObject(arg) THEN arg.tag ELSE "absent"

\* arg && arg._tag === 'Left': a falsy arg is itself what && yields
isParseError(arg) ==
    IF Truthy(arg) THEN JSBool(GetTag(arg) = "Left") ELSE arg

------------------------------------------------------------------------------
\* parseData

\* An io-ts TypeC / IntersectionC is the type it requires of the property id
\* ("absent": none required). Properties the structure does not name are kept.
Schemas == {"{}", "{id:string}", "{id:number}"}

RequiredId(structure) ==
    CASE structure = "{id:string}" -> "string"
      [] structure = "{id:number}" -> "number"
      [] OTHER -> "absent"

Satisfies(data, structure) ==
    /\ IsObject(data)
    /\ RequiredId(structure) # "absent" => data.id = RequiredId(structure)

\* The Left the collaborator makes: an object whose _tag is 'Left'
LeftReport == Obj("Left", "Left(errors)", <<"Left.prototype", "Object.prototype">>,
                  "Left", "absent", "none")
RightOf(data) == Obj("Right", "Right(value)", <<"Right.prototype", "Object.prototype">>,
                     "Right", "absent", "none")
Errors == Obj("Array", "[ValidationError]", <<"Array.prototype", "Object.prototype">>,
              "absent", "absent", "none")

\* structure.decode(data): the Either, with what isLeft() and .value give
decode(data, structure) ==
    IF Satisfies(data, structure)
    THEN [isLeft |-> FALSE, either |-> RightOf(data), value |-> data]
    ELSE [isLeft |-> TRUE, either |-> LeftReport, value |-> Errors]

parseDataLeaksEither(data, structure) ==
    decode(data, structure).either

parseData(data, structure) ==
    LET decoded == decode(data, structure)
    IN  IF decoded.isLeft THEN decoded.either ELSE decoded.value

------------------------------------------------------------------------------
\* Promises

Pending == [state |-> "pending", value |-> Undefined]
Fulfilled(v) == [state |-> "fulfilled", value |-> v]
Rejected(v) == [state |-> "rejected", value |-> v]

NoPromise == [state |-> "none", value |-> Undefined]
NoRet == [state |-> "none", value |-> Undefined, resolved |-> FALSE]
NewRet == [state |-> "pending", value |-> Undefined, resolved |-> FALSE]

ReactP   == [type |-> "reactP", val |-> Undefined]
ReactP2  == [type |-> "reactP2", val |-> Undefined]
ThenableJob(x) == [type |-> "thenable", val |-> x]

\* What the host throws from a then that throws
Thrown == Obj("Error", "thrown by then", ErrorProtos, "absent", "absent", "none")

\* resolve(x), the first argument of the executor of new Promise: nothing once
\* it has been called; a thenable is assimilated by a later job and the promise
\* stays pending until then; any other value fulfils the promise.
ResolveFunction(r, x) ==
    IF r.resolved THEN r
    ELSE IF IsThenable(x) THEN [r EXCEPT !.resolved = TRUE]
    ELSE [state |-> "fulfilled", value |-> x, resolved |-> TRUE]

ResolveJobs(r, x) ==
    IF ~r.resolved /\ IsThenable(x) THEN <<ThenableJob(x)>> ELSE <<>>

thenCallbackDropsResult(r, result) == ResolveFunction(r, Undefined)

\* (result: T) => { return resolve(result) }
thenCallback(r, result) == ResolveFunction(r, result)

catchCallbackForgets(r, err) == r

catchCallbackMessage(r, err) == ResolveFunction(r, Prim("string", "x"))

catchCallbackWrapsInError(r, err) ==
    ResolveFunction(r, IF InstanceOf(err, "Error.prototype") THEN err
                       ELSE Obj("Error", "new Error(err)", ErrorProtos,
                                "absent", "absent", "none"))

\* (err: ET) => { return resolve(err) }
catchCallback(r, err) == ResolveFunction(r, err)

Became(r1, r2) == IF r1.state # "fulfilled" /\ r2.state = "fulfilled" THEN 1 ELSE 0

------------------------------------------------------------------------------
\* Actions

Init ==
    /\ p = Pending
    /\ called = "none"
    /\ p2 = NoPromise
    /\ p3 = NoPromise
    /\ ret = NoRet
    /\ jobs = <<>>
    /\ fulfilCount = 0
    /\ wraps = 0
    /\ log = [fn |-> "none", arg |-> Undefined, schema |-> "", result |-> Undefined,
              again |-> FALSE, prev |-> Undefined]

\* The wrapped operation completes: a native promise is fulfilled with a value
\* that is no thenable, or rejected with any value. Its reaction, if one is
\* registered, is queued.
SettleP ==
    /\ p.state = "pending"
    /\ \/ \E v \in Universe : ~IsThenable(v) /\ p' = Fulfilled(v)
       \/ \E e \in Universe : p' = Rejected(e)
    /\ jobs' = IF called # "none" THEN Append(jobs, ReactP) ELSE jobs
    /\ UNCHANGED <<called, p2, p3, ret, fulfilCount, wraps, log>>

ExecutorEager(via) ==
    /\ called' = via
    /\ ret' = ResolveFunction(NewRet, Undefined)
    /\ p2' = Pending
    /\ p3' = Pending
    /\ jobs' = IF p.state # "pending" THEN Append(jobs, ReactP) ELSE jobs
    /\ fulfilCount' = 1
    /\ wraps' = wraps + 1
    /\ UNCHANGED <<p, log>>

\* new Promise((resolve) => { promise.then(..).catch(..) }): the executor runs
\* at once, registers the two reactions and calls nothing else.
Executor(via) ==
    /\ called' = via
    /\ ret' = NewRet
    /\ p2' = Pending
    /\ p3' = Pending
    /\ jobs' = IF p.state # "pending" THEN Append(jobs, ReactP) ELSE jobs
    /\ fulfilCount' = 0
    /\ wraps' = wraps + 1
    /\ UNCHANGED <<p, log>>

wrapPromise ==
    /\ called = "none"
    /\ wraps < MaxWraps
    /\ Executor("wrapPromise")

wrapAxios ==
    /\ called = "none"
    /\ wraps < MaxWraps
    /\ Executor("wrapAxios")

\* The reaction of promise.then(onFulfilled): onFulfilled runs on a fulfilment
\* and its return value (undefined) resolves p2; a rejection passes to p2.
RunThenReaction ==
    /\ jobs # <<>>
    /\ Head(jobs).type = "reactP"
    /\ IF p.state = "fulfilled"
       THEN /\ ret' = thenCallback(ret, p.value)
            /\ p2' = Fulfilled(Undefined)
            /\ jobs' = (Tail(jobs) \o ResolveJobs(ret, p.value)) \o <<ReactP2>>
       ELSE /\ ret' = ret
            /\ p2' = Rejected(p.value)
            /\ jobs' = Tail(jobs) \o <<ReactP2>>
    /\ fulfilCount' = fulfilCount + Became(ret, ret')
    /\ UNCHANGED <<p, called, p3, wraps, log>>

\* The reaction of .catch(onRejected): a fulfilment passes to p3; onRejected
\* runs on a rejection and its return value (undefined) resolves p3.
RunCatchReaction ==
    /\ jobs # <<>>
    /\ Head(jobs).type = "reactP2"
    /\ IF p2.state = "fulfilled"
       THEN /\ ret' = ret
            /\ p3' = Fulfilled(p2.value)
            /\ jobs' = Tail(jobs)
       ELSE /\ ret' = catchCallback(ret, p2.value)
            /\ p3' = Fulfilled(Undefined)
            /\ jobs' = Tail(jobs) \o ResolveJobs(ret, p2.value)
    /\ fulfilCount' = fulfilCount + Became(ret, ret')
    /\ UNCHANGED <<p, called, p2, wraps, log>>

\* The host's job for a promise resolved with a thenable: then is called with
\* the promise's resolving functions.
RunThenableJob ==
    /\ jobs # <<>>
    /\ Head(jobs).type = "thenable"
    /\ LET b == Head(jobs).val.then
       IN  ret' = CASE b = "resolve" -> [ret EXCEPT !.state = "fulfilled", !.value = Inner]
                    [] b = "reject"  -> [ret EXCEPT !.state = "rejected", !.value = Inner]
                    [] b = "throw"   -> [ret EXCEPT !.state = "rejected", !.value = Thrown]
                    [] OTHER         -> ret
    /\ jobs' = Tail(jobs)
    /\ fulfilCount' = fulfilCount + Became(ret, ret')
    /\ UNCHANGED <<p, called, p2, p3, wraps, log>>

\* The caller is done with the result and turns to its next operation.
NextOperation ==
    /\ called # "none"
    /\ p.state # "pending"
    /\ jobs = <<>>
    /\ wraps < MaxWraps
    /\ p' = Pending
    /\ called' = "none"
    /\ p2' = NoPromise
    /\ p3' = NoPromise
    /\ ret' = NoRet
    /\ fulfilCount' = 0
    /\ UNCHANGED <<jobs, wraps, log>>

\* What a caller hands to a predicate: while an operation is wrapped it awaits
\* the returned promise and classifies the result; otherwise any value, or what
\* parseData returned.
Args ==
    IF called # "none"
    THEN (IF ret.state = "fulfilled" THEN {ret.value} ELSE {})
    ELSE Universe \cup (IF log.fn = "parseData" THEN {log.result} ELSE {})

Logged(fn, arg, schema, result) ==
    LET same == log.fn = fn /\ log.arg = arg /\ log.schema = schema
    IN  log' = [fn |-> fn, arg |-> arg, schema |-> schema, result |-> result,
                again |-> same, prev |-> IF same THEN log.result ELSE Undefined]

CallIsError ==
    /\ \E x \in Args : Logged("isError", x, "", JSBool(isError(x)))
    /\ UNCHANGED <<p, called, p2, p3, ret, jobs, fulfilCount, wraps>>

CallIsAxiosError ==
    /\ \E x \in Args : Logged("isAxiosError", x, "", JSBool(isAxiosError(x)))
    /\ UNCHANGED <<p, called, p2, p3, ret, jobs, fulfilCount, wraps>>

CallIsParseError ==
    /\ \E x \in Args : Logged("isParseError", x, "", isParseError(x))
    /\ UNCHANGED <<p, called, p2, p3, ret, jobs, fulfilCount, wraps>>

CallParseData ==
    /\ called = "none"
    /\ \E d \in Universe, s \in Schemas : Logged("parseData", d, s, parseData(d, s))
    /\ UNCHANGED <<p, called, p2, p3, ret, jobs, fulfilCount, wraps>>

Next ==
    \/ SettleP
    \/ wrapPromise
    \/ wrapAxios
    \/ RunThenReaction
    \/ RunCatchReaction
    \/ RunThenableJob
    \/ NextOperation
    \/ CallIsError
    \/ CallIsAxiosError
    \/ CallIsParseError
    \/ CallParseData

Spec == Init /\ [][Next]_vars

\* The host runs every queued promise job.
FairSpec ==
    /\ Spec
    /\ WF_vars(RunThenReaction)
    /\ WF_vars(RunCatchReaction)
    /\ WF_vars(RunThenableJob)

------------------------------------------------------------------------------
\* Vocabulary of the properties

\* The error category: the values made by Error or by a constructor derived
\* from it.
ErrorClasses == {"Error", "TypeError", "AxiosError"}
InErrorCategory(x) == IsObject(x) /\ x.cls \in ErrorClasses

IsBoolean(x) == x \in {JSTrue, JSFalse}

Wrapped == called # "none"
Settled == p.state # "pending"

\* The wrapped promise has settled and the host has run every job it queued.
Quiescent == Wrapped /\ Settled /\ jobs = <<>>

------------------------------------------------------------------------------
\* C1

C1_Safety ==
    (Wrapped /\ (Settled => ~IsThenable(p.value))) =>
        /\ ret.state # "rejected"
        /\ fulfilCount <= 1
        /\ Quiescent => ret.state = "fulfilled" /\ fulfilCount = 1

C1_Stable ==
    (ret.state = "fulfilled" /\ called' = called) => ret' = ret

------------------------------------------------------------------------------
\* C2

\* C2 as stated: after a fulfilment with any value v the returned promise is
\* fulfilled with v and isError of the result is false.
C2_AnyValue ==
    (Quiescent /\ p.state = "fulfilled") =>
        /\ ret.state = "fulfilled"
        /\ ret.value = p.value
        /\ ~isError(ret.value)

\* C2, amended: after a fulfilment with any value v the returned promise is
\* fulfilled with exactly v, and isError of the result is false when v is
\* outside the error category (it is true when v is an Error instance).
C2_PayloadOutsideCategory ==
    (Quiescent /\ p.state = "fulfilled") =>
        /\ ret.state = "fulfilled"
        /\ ret.value = p.value
        /\ isError(ret.value) <=> InErrorCategory(p.value)

C2_Witness ==
    /\ Quiescent
    /\ p.state = "fulfilled"
    /\ p.value.lit = "{id:'42'}"
    /\ ret = [state |-> "fulfilled", value |-> p.value, resolved |-> TRUE]
    /\ log.fn = "isError" /\ log.arg = ret.value /\ log.result = JSFalse

------------------------------------------------------------------------------
\* C3

------------------------------------------------------------------------------
\* C4

\* C4: every call of isError returns a boolean, true for a value of the error
\* category and false for any other value (null, undefined, primitives and
\* plain objects included).
C4_Total ==
    log.fn = "isError" =>
        /\ IsBoolean(log.result)
        /\ InErrorCategory(log.arg) => log.result = JSTrue
        /\ ~InErrorCategory(log.arg) => log.result = JSFalse

C4_Witness ==
    /\ log.fn = "isError"
    /\ log.arg.cls = "TypeError"
    /\ log.result = JSTrue

------------------------------------------------------------------------------
\* C5

\* C5 as stated: isParseError of what parseData returned is true exactly when
\* the data fails validation against the structure.
C5_ExactlyOnFailure ==
    log.fn = "parseData" =>
        (isParseError(log.result) = JSBool(~Satisfies(log.arg, log.schema)))

------------------------------------------------------------------------------
\* C6

\* C6 as stated: parseData returns the decoded value when the data satisfies
\* the structure, and otherwise the collaborator's report, whose discriminant
\* is "failure".
C6_DiscriminantFailure ==
    log.fn = "parseData" =>
        IF Satisfies(log.arg, log.schema)
        THEN log.result = decode(log.arg, log.schema).value
        ELSE log.result = decode(log.arg, log.schema).either
             /\ log.result.tag = "failure"

\* C6, amended: parseData returns the decoded value when the data satisfies
\* the structure, and otherwise the collaborator's report unchanged, whose
\* discriminant _tag is 'Left'.
C6_DiscriminantLeft ==
    log.fn = "parseData" =>
        IF Satisfies(log.arg, log.schema)
        THEN log.result = log.arg
        ELSE log.result = LeftReport /\ log.result.tag = "Left"

C6_Witness ==
    /\ log.fn = "parseData"
    /\ log.arg.lit = "{id:123}"
    /\ log.schema = "{id:string}"
    /\ log.result = LeftReport

------------------------------------------------------------------------------
\* C7

\* C7 as stated: isAxiosError returns true for an AxiosError and does not
\* return true for an error that is no AxiosError.
C7_OnlyAxiosErrors ==
    log.fn = "isAxiosError" =>
        /\ log.arg.cls = "AxiosError" => log.result = JSTrue
        /\ (InErrorCategory(log.arg) /\ log.arg.cls # "AxiosError")
               => log.result # JSTrue

------------------------------------------------------------------------------
\* C8

\* C8: as long as the wrapped promise is pending the returned promise is
\* pending and nothing has resolved it.
C8_PendingWhilePending ==
    (Wrapped /\ p.state = "pending") => (ret.state = "pending" /\ ~ret.resolved)

C8_Witness ==
    /\ Wrapped
    /\ p.state = "pending"
    /\ ret.state = "pending"
    /\ wraps = 1

------------------------------------------------------------------------------
\* C9

\* C9 as stated: two calls in a row of isError, or of isParseError, on the same
\* value return the same boolean.
C9_SameBoolean ==
    (log.again /\ log.fn \in {"isError", "isParseError"}) =>
        /\ log.result = log.prev
        /\ IsBoolean(log.result)

------------------------------------------------------------------------------
\* C10

====
